---- MODULE Spec2Model ----
(***************************************************************************)
(* A model of the DataFrame class of src/lib/dataframe.js.                 *)
(*                                                                         *)
(* JavaScript objects live on a heap (a sequence of objects, an address    *)
(* is an index), so that two DataFrame instances that hold the same array  *)
(* or the same row object really share it.  A value is a tagged record:    *)
(* a number, a string, undefined, or a reference to a heap object.         *)
(***************************************************************************)
EXTENDS Integers, Sequences, FiniteSets, TLC

VARIABLES
  heap,   \* the JavaScript heap: Seq of [kind, keys, vals]
  df,     \* the DataFrame instances the caller holds, in two variables
  call,   \* the last method call: its name, its receiver and what it returned
  out,    \* what the last call passed to console.log, one entry per call of it
  io      \* the file operation under way: its promise and its stream

vars == <<heap, df, call, out, io>>

(***************************************************************************)
(* Bounds of the model.                                                    *)
(***************************************************************************)
MaxRows == 3

(***************************************************************************)
(* Values.                                                                 *)
(***************************************************************************)
Num(k) == [t |-> "number", n |-> k, s |-> ""]
Str(x) == [t |-> "string", n |-> 0, s |-> x]
Undef == [t |-> "undefined", n |-> 0, s |-> ""]
Null == [t |-> "null", n |-> 0, s |-> ""]
Ref(a) == [t |-> "object", n |-> a, s |-> ""]

\* typeof value
TypeOf(v) == IF v.t = "null" THEN "object" ELSE v.t

\* ToBoolean(value), as used by `x || y` and `x ? y : z`
Truthy(v) ==
  CASE v.t = "undefined" -> FALSE
    [] v.t = "null" -> FALSE
    [] v.t = "number" -> v.n # 0
    [] v.t = "string" -> v.s # ""
    [] OTHER -> TRUE

\* String(k) for the small non-negative integers the model uses
Digits == <<"0", "1", "2", "3", "4", "5", "6", "7", "8", "9">>
NumText(k) == Digits[k + 1]

\* The integer an array-index property key denotes, -1 for any other key
IndexOf(k) ==
  IF \E d \in 1..Len(Digits) : Digits[d] = k
  THEN (CHOOSE d \in 1..Len(Digits) : Digits[d] = k) - 1
  ELSE -1

\* The rank of a string in the lexicographic (code unit) order of `<` on strings
StrRank(x) ==
  CASE x = "" -> 0
    [] x = "1" -> 1
    [] x = "2" -> 2
    [] x = "a" -> 3
    [] x = "b" -> 4
    [] x = "c" -> 5
    [] OTHER -> 6

(***************************************************************************)
(* Heap objects: arrays and plain objects.  A plain object keeps its own   *)
(* keys in insertion order.                                                *)
(***************************************************************************)
ArrObj(vals) == [kind |-> "arr", keys |-> <<>>, vals |-> vals]
EmptyObj == [kind |-> "obj", keys |-> <<>>, vals |-> <<>>]

\* Array.isArray(v)
IsArray(h, v) == v.t = "object" /\ h[v.n].kind = "arr"

HasKey(o, k) == \E i \in 1..Len(o.keys) : o.keys[i] = k

\* o[k]
GetKey(o, k) ==
  IF HasKey(o, k)
  THEN o.vals[CHOOSE i \in 1..Len(o.keys) : o.keys[i] = k]
  ELSE Undef

\* o[k] = v: an existing key keeps its place, a new key goes last
SetKey(o, k, v) ==
  IF HasKey(o, k)
  THEN [o EXCEPT !.vals[CHOOSE i \in 1..Len(o.keys) : o.keys[i] = k] = v]
  ELSE [o EXCEPT !.keys = Append(@, k), !.vals = Append(@, v)]

RECURSIVE IndexKeysFrom(_, _)
IndexKeysFrom(o, d) ==
  IF d > Len(Digits) THEN <<>>
  ELSE (IF HasKey(o, Digits[d]) THEN <<Digits[d]>> ELSE <<>>) \o IndexKeysFrom(o, d + 1)

\* Object.keys(o): the array-index keys in ascending numeric order, then the
\* other keys in insertion order
ObjectKeys(o) ==
  IndexKeysFrom(o, 1) \o SelectSeq(o.keys, LAMBDA k : IndexOf(k) < 0)

\* v[i] for an integer i
ElemAt(h, v, i) ==
  IF v.t # "object" THEN Undef
  ELSE IF h[v.n].kind = "arr"
       THEN (IF 0 <= i /\ i < Len(h[v.n].vals) THEN h[v.n].vals[i + 1] ELSE Undef)
       ELSE (IF 0 <= i /\ i < Len(Digits) THEN GetKey(h[v.n], NumText(i)) ELSE Undef)

\* row[name] for a string name
RowGet(h, row, name) ==
  IF row.t # "object" THEN Undef
  ELSE IF h[row.n].kind = "arr"
       THEN (IF IndexOf(name) >= 0 THEN ElemAt(h, row, IndexOf(name)) ELSE Undef)
       ELSE GetKey(h[row.n], name)

\* The elements of the array v refers to
Elems(h, v) == h[v.n].vals

\* The addresses a sequence of n fresh objects gets on heap h
FreshRefs(h, n) == [i \in 1..n |-> Ref(Len(h) + i)]

(***************************************************************************)
(* A DataFrame instance: its three fields.                                 *)
(***************************************************************************)
NoTable == [columns |-> Undef, data |-> Undef, dtypes |-> EmptyObj]
Exists(t) == t.data # Undef

\* #getColumn(columnName)
getColumn(h, data, columnName) ==
  [i \in 1..Len(Elems(h, data)) |-> RowGet(h, Elems(h, data)[i], columnName)]

\* #detectColumnType(columnName)
detectColumnType(h, data, columnName) ==
  LET columnData == getColumn(h, data, columnName)
      types == {TypeOf(columnData[i]) : i \in 1..Len(columnData)}
  IN IF Cardinality(types) = 1 THEN CHOOSE x \in types : TRUE ELSE "mixed"

RECURSIVE detectFrom(_, _, _, _, _)
detectFrom(h, colv, data, i, dtypes) ==
  IF i > Len(colv) THEN dtypes
  ELSE detectFrom(h, colv, data, i + 1,
                  SetKey(dtypes, colv[i].s, Str(detectColumnType(h, data, colv[i].s))))

\* #detectColumnTypes()
detectColumnTypes(h, columns, data) ==
  detectFrom(h, Elems(h, columns), data, 1, EmptyObj)

\* this.dtypes = this.#detectColumnTypes(), the last statement of the constructor
\* and of the two in-place methods
WithDtypes(h, columns, data) ==
  [columns |-> columns, data |-> data, dtypes |-> detectColumnTypes(h, columns, data)]

\* `column${i + 1}` for i = 0 .. n-1
AutoNames(n) == [i \in 1..n |-> Str("column" \o NumText(i))]

RECURSIVE RowFromArray(_, _, _, _, _)
\* the forEach of the constructor: obj[column] = row[index]
RowFromArray(h, colv, row, i, obj) ==
  IF i > Len(colv) THEN obj
  ELSE RowFromArray(h, colv, row, i + 1, SetKey(obj, colv[i].s, ElemAt(h, row, i - 1)))

\* new DataFrame(data, columns): the heap after it, the instance, and the error
\* thrown ("" when none)
Constructor(h, data, columns) ==
  IF data.t \in {"undefined", "null"} THEN
    \* data[0] on undefined or null throws before any test is made
    [h |-> h, this |-> NoTable, err |-> "TypeError"]
  ELSE IF IsArray(h, ElemAt(h, data, 0)) /\ ~IsArray(h, data) THEN
    \* data.map is not a function
    [h |-> h, this |-> NoTable, err |-> "TypeError"]
  ELSE IF IsArray(h, ElemAt(h, data, 0)) THEN
    LET width == Len(Elems(h, ElemAt(h, data, 0)))
        given == Truthy(columns) /\ IsArray(h, columns) /\ Len(Elems(h, columns)) = width
        h1 == IF given THEN h ELSE Append(h, ArrObj(AutoNames(width)))
        cols == IF given THEN columns ELSE Ref(Len(h1))
        rows == Elems(h, data)
        objs == [i \in 1..Len(rows) |-> RowFromArray(h1, Elems(h1, cols), rows[i], 1, EmptyObj)]
        h2 == Append(h1 \o objs, ArrObj(FreshRefs(h1, Len(rows))))
    IN [h |-> h2, this |-> WithDtypes(h2, cols, Ref(Len(h2))), err |-> ""]
  ELSE IF IsArray(h, data) THEN
    LET first == ElemAt(h, data, 0)
        keys == IF first.t = "object" THEN ObjectKeys(h[first.n]) ELSE <<>>
        h1 == IF Truthy(first)
              THEN Append(h, ArrObj([i \in 1..Len(keys) |-> Str(keys[i])]))
              ELSE h
        cols == IF Truthy(first) THEN Ref(Len(h1)) ELSE columns
    IN IF IsArray(h1, cols)
       THEN [h |-> h1, this |-> WithDtypes(h1, cols, data), err |-> ""]
       ELSE [h |-> h1, this |-> NoTable, err |-> "TypeError"]
  ELSE [h |-> h, this |-> NoTable, err |-> "Invalid input data format"]

(***************************************************************************)
(* renameColumns and dropColumns: the two methods that change the receiver *)
(***************************************************************************)
\* columns[oldColumn] || oldColumn
NewName(mapping, oldColumn) ==
  IF Truthy(GetKey(mapping, oldColumn.s)) THEN GetKey(mapping, oldColumn.s) ELSE oldColumn

RECURSIVE RenameRow(_, _, _, _, _, _)
RenameRow(h, colv, mapping, row, i, newRow) ==
  IF i > Len(colv) THEN newRow
  ELSE RenameRow(h, colv, mapping, row, i + 1,
                 SetKey(newRow, NewName(mapping, colv[i]).s, RowGet(h, row, colv[i].s)))

\* renameColumns that leaves this.dtypes as it was
renameColumnsStale(h, this, mapping) ==
  LET colv == Elems(h, this.columns)
      rows == Elems(h, this.data)
      newColumns == [i \in 1..Len(colv) |-> NewName(mapping, colv[i])]
      h1 == Append(h, ArrObj(newColumns))
      objs == [r \in 1..Len(rows) |-> RenameRow(h, colv, mapping, rows[r], 1, EmptyObj)]
      h2 == Append(h1 \o objs, ArrObj(FreshRefs(h1, Len(rows))))
  IN [h |-> h2,
      this |-> [columns |-> Ref(Len(h1)), data |-> Ref(Len(h2)), dtypes |-> this.dtypes]]

\* renameColumns that writes the new names into the arrays and row objects the
\* receiver already holds
renameColumnsInPlace(h, this, mapping) ==
  LET colv == Elems(h, this.columns)
      rows == Elems(h, this.data)
      newColumns == [i \in 1..Len(colv) |-> NewName(mapping, colv[i])]
      h1 == [a \in 1..Len(h) |->
               IF a = this.columns.n THEN ArrObj(newColumns)
               ELSE IF \E r \in 1..Len(rows) : rows[r].n = a
                    THEN RenameRow(h, colv, mapping, Ref(a), 1, EmptyObj)
                    ELSE h[a]]
  IN [h |-> h1, this |-> WithDtypes(h1, this.columns, this.data)]

\* renameColumns(columns): the heap after it and the receiver's fields
renameColumns(h, this, mapping) ==
  LET colv == Elems(h, this.columns)
      rows == Elems(h, this.data)
      newColumns == [i \in 1..Len(colv) |-> NewName(mapping, colv[i])]
      h1 == Append(h, ArrObj(newColumns))
      objs == [r \in 1..Len(rows) |-> RenameRow(h, colv, mapping, rows[r], 1, EmptyObj)]
      h2 == Append(h1 \o objs, ArrObj(FreshRefs(h1, Len(rows))))
  IN [h |-> h2, this |-> WithDtypes(h2, Ref(Len(h1)), Ref(Len(h2)))]

\* columnsToDrop.includes(column), columnsToSelect given as a sequence of names
Includes(names, v) == \E i \in 1..Len(names) : Str(names[i]) = v

RECURSIVE PickRow(_, _, _, _, _)
\* for (const column of newColumns) newRow[column] = row[column]
PickRow(h, newColumns, row, i, newRow) ==
  IF i > Len(newColumns) THEN newRow
  ELSE PickRow(h, newColumns, row, i + 1,
               SetKey(newRow, newColumns[i].s, RowGet(h, row, newColumns[i].s)))

\* dropColumns(columns), columns a name or an array of names
dropColumns(h, this, names) ==
  LET rows == Elems(h, this.data)
      newColumns == SelectSeq(Elems(h, this.columns), LAMBDA c : ~Includes(names, c))
      h1 == Append(h, ArrObj(newColumns))
      objs == [r \in 1..Len(rows) |-> PickRow(h, newColumns, rows[r], 1, EmptyObj)]
      h2 == Append(h1 \o objs, ArrObj(FreshRefs(h1, Len(rows))))
  IN [h |-> h2, this |-> WithDtypes(h2, Ref(Len(h1)), Ref(Len(h2)))]

(***************************************************************************)
(* select, filter, sortBy and groupBy: the methods that build a new        *)
(* DataFrame.  Each gives the heap after it, the new instance and the      *)
(* error thrown.                                                           *)
(***************************************************************************)
\* select(columns), columns a name or an array of names
select(h, this, names) ==
  LET rows == Elems(h, this.data)
      columnsToSelect == [i \in 1..Len(names) |-> Str(names[i])]
      newColumns == SelectSeq(columnsToSelect,
                              LAMBDA c : \E j \in 1..Len(Elems(h, this.columns)) :
                                            Elems(h, this.columns)[j] = c)
      h1 == Append(h, ArrObj(newColumns))
      objs == [r \in 1..Len(rows) |-> PickRow(h, newColumns, rows[r], 1, EmptyObj)]
      h2 == Append(h1 \o objs, ArrObj(FreshRefs(h1, Len(rows))))
  IN Constructor(h2, Ref(Len(h2)), Ref(Len(h1)))

\* The subsequence of s at the positions in keep
RECURSIVE KeepAt(_, _, _)
KeepAt(s, keep, i) ==
  IF i > Len(s) THEN <<>>
  ELSE (IF i \in keep THEN <<s[i]>> ELSE <<>>) \o KeepAt(s, keep, i + 1)

\* filter(condition); keep is the set of row positions at which the
\* condition returns a truthy value
filter(h, this, keep) ==
  LET filteredData == KeepAt(Elems(h, this.data), keep, 1)
      h1 == Append(h, ArrObj(filteredData))
  IN Constructor(h1, Ref(Len(h1)), this.columns)

\* ToPrimitive of a plain object is the string "[object Object]"
ObjectText == "[object Object]"

\* ToNumber(v); NaN stands for NaN
NaN == [nan |-> TRUE, n |-> 0]
Number(k) == [nan |-> FALSE, n |-> k]
ToNumber(v) ==
  CASE v.t = "number" -> Number(v.n)
    [] v.t = "string" /\ v.s = "" -> Number(0)
    [] v.t = "null" -> Number(0)
    [] v.t = "string" /\ IndexOf(v.s) >= 0 -> Number(IndexOf(v.s))
    [] OTHER -> NaN

\* value1 < value2
Less(h, v1, v2) ==
  LET p1 == IF v1.t = "object" THEN Str(ObjectText) ELSE v1
      p2 == IF v2.t = "object" THEN Str(ObjectText) ELSE v2
  IN IF p1.t = "string" /\ p2.t = "string"
     THEN StrRank(p1.s) < StrRank(p2.s)
     ELSE /\ ~ToNumber(p1).nan
          /\ ~ToNumber(p2).nan
          /\ ToNumber(p1).n < ToNumber(p2).n

RECURSIVE CompareFrom(_, _, _, _, _, _)
CompareFrom(h, columns, ascending, row1, row2, i) ==
  IF i > Len(columns) THEN 0
  ELSE LET value1 == RowGet(h, row1, columns[i])
           value2 == RowGet(h, row2, columns[i])
       IN IF Less(h, value1, value2) THEN (IF ascending THEN -1 ELSE 1)
          ELSE IF Less(h, value2, value1) THEN (IF ascending THEN 1 ELSE -1)
          ELSE CompareFrom(h, columns, ascending, row1, row2, i + 1)

\* The comparator sortBy passes to Array.prototype.sort
Compare(h, columns, ascending, row1, row2) ==
  CompareFrom(h, columns, ascending, row1, row2, 1)

\* Whether the comparator is a consistent comparator on these rows (ECMA-262,
\* Array.prototype.sort): only then is the sort order defined
Consistent(h, columns, ascending, rows) ==
  LET R == {rows[i] : i \in 1..Len(rows)}
      lt == {p \in R \X R : Compare(h, columns, ascending, p[1], p[2]) < 0}
      gt == {p \in R \X R : Compare(h, columns, ascending, p[1], p[2]) > 0}
      eq == (R \X R) \ (lt \cup gt)
  IN /\ \A p \in lt : <<p[2], p[1]>> \in gt
     /\ \A p \in gt : <<p[2], p[1]>> \in lt
     /\ \A p \in lt : \A c \in R : <<p[2], c>> \in lt => <<p[1], c>> \in lt
     /\ \A p \in eq : \A c \in R : <<p[2], c>> \in eq => <<p[1], c>> \in eq
     /\ \A p \in eq : \A c \in R : <<p[2], c>> \in lt => <<p[1], c>> \in lt
     /\ \A p \in lt : \A c \in R : <<p[2], c>> \in eq => <<p[1], c>> \in lt

RECURSIVE InsertSorted(_, _, _, _, _)
\* x put into the sorted sequence s after every element that is not greater
InsertSorted(h, columns, ascending, s, x) ==
  IF s = <<>> THEN <<x>>
  ELSE IF Compare(h, columns, ascending, s[Len(s)], x) > 0
       THEN Append(InsertSorted(h, columns, ascending, SubSeq(s, 1, Len(s) - 1), x), s[Len(s)])
       ELSE Append(s, x)

RECURSIVE StableSort(_, _, _, _, _)
StableSort(h, columns, ascending, rows, i) ==
  IF i = 0 THEN <<>>
  ELSE InsertSorted(h, columns, ascending, StableSort(h, columns, ascending, rows, i - 1), rows[i])

\* The arrangements of a sequence
Arrangements(s) ==
  {[i \in 1..Len(s) |-> s[p[i]]] :
     p \in {q \in [1..Len(s) -> 1..Len(s)] : \A i, j \in 1..Len(s) : q[i] = q[j] => i = j}}

\* What Array.prototype.sort may leave in the array: the stable sorted order
\* under a consistent comparator, an implementation-defined order otherwise
SortOutcomes(h, columns, ascending, rows) ==
  IF Consistent(h, columns, ascending, rows)
  THEN {StableSort(h, columns, ascending, rows, Len(rows))}
  ELSE Arrangements(rows)

\* sortBy that sorts this.data itself, not a copy of it
sortByInPlace(h, this, sorted) ==
  LET h1 == [h EXCEPT ![this.data.n] = ArrObj(sorted)]
  IN Constructor(h1, this.data, this.columns)

\* sortBy(columns, ascending); sorted is the order sort left in sortData
sortBy(h, this, sorted) ==
  LET h1 == Append(h, ArrObj(sorted))
  IN Constructor(h1, Ref(Len(h1)), this.columns)

\* JSON.stringify of one value inside an array
JsonText(h, v) ==
  CASE v.t = "number" -> NumText(v.n)
    [] v.t = "string" -> "\"" \o v.s \o "\""
    [] v.t = "undefined" -> "null"
    [] v.t = "null" -> "null"
    [] OTHER -> "{}"

RECURSIVE JsonJoin(_, _, _, _)
JsonJoin(h, row, columns, i) ==
  IF i > Len(columns) THEN ""
  ELSE (IF i > 1 THEN "," ELSE "") \o JsonText(h, RowGet(h, row, columns[i]))
       \o JsonJoin(h, row, columns, i + 1)

\* JSON.stringify(columns.map((column) => row[column]))
GroupKey(h, row, columns) == "[" \o JsonJoin(h, row, columns, 1) \o "]"

RECURSIVE GroupsFrom(_, _, _, _, _)
\* the loop of groupBy over the rows; groups is the Map, as keys and buckets
GroupsFrom(h, rows, columns, i, groups) ==
  IF i > Len(rows) THEN groups
  ELSE LET key == GroupKey(h, rows[i], columns)
           g == IF HasKey(groups, key) THEN groups ELSE SetKey(groups, key, <<>>)
       IN GroupsFrom(h, rows, columns, i + 1,
                     SetKey(g, key, Append(GetKey(g, key), rows[i])))

\* groupData = Array.from(groups.values()): the buckets, as sequences of rows
groupData(h, this, columns) ==
  GroupsFrom(h, Elems(h, this.data), columns, 1, EmptyObj).vals

\* groupBy(columns)
groupBy(h, this, columns) ==
  LET groups == GroupsFrom(h, Elems(h, this.data), columns, 1, EmptyObj)
      buckets == [b \in 1..Len(groups.vals) |-> ArrObj(groups.vals[b])]
      h1 == Append(h \o buckets, ArrObj(FreshRefs(h, Len(buckets))))
  IN Constructor(h1, Ref(Len(h1)), this.columns)

(***************************************************************************)
(* getRow, head and tail.                                                  *)
(***************************************************************************)
\* getRow(index): the value returned and the error thrown
getRow(h, this, index) ==
  IF index > Len(Elems(h, this.data))
  THEN [ret |-> Undef, err |-> "Index out of range"]
  ELSE [ret |-> ElemAt(h, this.data, index), err |-> ""]

Min(a, b) == IF a < b THEN a ELSE b
Max(a, b) == IF a > b THEN a ELSE b

\* Array.prototype.slice(start, end) on integers
Slice(s, start, end) ==
  LET from == IF start < 0 THEN Max(Len(s) + start, 0) ELSE Min(start, Len(s))
      to == IF end < 0 THEN Max(Len(s) + end, 0) ELSE Min(end, Len(s))
  IN SubSeq(s, from + 1, to)

\* head(n): the elements of the array it returns and what it logs (that array)
head(h, this, n) ==
  LET headData == Slice(Elems(h, this.data), 0, n)
  IN [ret |-> headData, log |-> <<headData>>]

\* tail(n)
tail(h, this, n) ==
  LET tailData == Slice(Elems(h, this.data), 0 - n, Len(Elems(h, this.data)))
  IN [ret |-> tailData, log |-> <<tailData>>]

(***************************************************************************)
(* mode.                                                                   *)
(***************************************************************************)
\* ToPropertyKey(value): the key frequencyMap[value] reads and writes
PropertyKey(v) ==
  CASE v.t = "number" -> NumText(v.n)
    [] v.t = "string" -> v.s
    [] v.t = "undefined" -> "undefined"
    [] v.t = "null" -> "null"
    [] OTHER -> ObjectText

RECURSIVE ModeFrom(_, _, _, _, _)
\* the loop of mode over columnData
ModeFrom(columnData, i, frequencyMap, maxFrequency, modes) ==
  IF i > Len(columnData) THEN modes
  ELSE LET value == columnData[i]
           key == PropertyKey(value)
           \* frequencyMap[value] + 1 || 1
           count == IF HasKey(frequencyMap, key) THEN GetKey(frequencyMap, key).n + 1 ELSE 1
           map1 == SetKey(frequencyMap, key, Num(count))
       IN IF count > maxFrequency
          THEN ModeFrom(columnData, i + 1, map1, count, <<value>>)
          ELSE IF count = maxFrequency
               THEN ModeFrom(columnData, i + 1, map1, maxFrequency, Append(modes, value))
               ELSE ModeFrom(columnData, i + 1, map1, maxFrequency, modes)

\* mode(columnName): the elements of the array it returns
mode(h, this, columnName) ==
  ModeFrom(getColumn(h, this.data, columnName), 1, EmptyObj, 0, <<>>)

(***************************************************************************)
(* Garbage collection.  After every call the objects no DataFrame reaches  *)
(* are dropped and the others are numbered in the order a walk from df[1]  *)
(* and then df[2] meets them, so that a state is the object graph and not  *)
(* the history of its allocations.  Sharing is kept as it is.              *)
(***************************************************************************)
RefsOf(o) ==
  LET refs == SelectSeq(o.vals, LAMBDA v : v.t = "object")
  IN [i \in 1..Len(refs) |-> refs[i].n]

RECURSIVE Walk(_, _, _)
Walk(h, todo, seen) ==
  IF todo = <<>> THEN seen
  ELSE IF \E i \in 1..Len(seen) : seen[i] = Head(todo)
       THEN Walk(h, Tail(todo), seen)
       ELSE Walk(h, RefsOf(h[Head(todo)]) \o Tail(todo), Append(seen, Head(todo)))

RootsOf(t) == IF Exists(t) THEN <<t.columns.n, t.data.n>> ELSE <<>>

Move(live, v) ==
  IF v.t = "object" THEN Ref(CHOOSE i \in 1..Len(live) : live[i] = v.n) ELSE v

Collect(h, d) ==
  LET live == Walk(h, RootsOf(d[1]) \o RootsOf(d[2]), <<>>)
  IN [h |-> [i \in 1..Len(live) |->
               [h[live[i]] EXCEPT !.vals = [j \in DOMAIN @ |-> Move(live, @[j])]]],
      df |-> [t \in 1..2 |->
                IF Exists(d[t])
                THEN [d[t] EXCEPT !.columns = Move(live, @), !.data = Move(live, @)]
                ELSE d[t]]]

(***************************************************************************)
(* The inputs the model draws from.                                        *)
(***************************************************************************)
\* The rows of the two-dimensional input array
RowChoices ==
  { <<Num(1), Num(1)>>, <<Num(2), Str("1")>>, <<Num(1), Str("a")>> }

Data2D == UNION {[1..n -> RowChoices] : n \in 0..MaxRows}

\* The columns argument of the constructor: of the rows' width, or not
ColumnArgs == { <<"a", "b">>, <<"b", "1">>, <<"a">> }

\* The key order of the records of an array-of-records input
RecordKeys == { <<"a", "b">>, <<"b", "1">> }

\* A mapping argument of renameColumns, from old names to new names
Mapping(olds, news) ==
  [kind |-> "obj", keys |-> olds, vals |-> [i \in 1..Len(news) |-> Str(news[i])]]

RenameTargets == {"a", "c", ""}

\* The column names of the model, in a fixed order
AllNames == <<"1", "a", "b", "c", "column1", "column2", "column3">>

\* Every mapping whose keys are columns of the receiver, and one whose key is not
RenameArgs(h, this) ==
  LET colv == Elems(h, this.columns)
      names == {colv[i].s : i \in 1..Len(colv)}
      keysOf(f) == SelectSeq(AllNames, LAMBDA x : x \in DOMAIN f)
  IN { Mapping(keysOf(f), [i \in 1..Len(keysOf(f)) |-> f[keysOf(f)[i]]]) :
         f \in UNION {[D -> RenameTargets] : D \in SUBSET names} }
     \cup { Mapping(<<"zz">>, <<"a">>) }

\* The names given to dropColumns (a single name is given as a list of one)
DropArgs == { <<>>, <<"a">>, <<"b">>, <<"1">>, <<"a", "b">>, <<"column1">>, <<"zz">> }

\* The names given to select (a single name is given as a list of one)
SelectNames == {"a", "b", "1", "zz"}
SelectArgs ==
  UNION {[1..n -> SelectNames] : n \in 0..2} \cup { <<"column1">>, <<"column2", "column1">> }

\* The key columns given to sortBy and groupBy
KeyArgs == { <<>>, <<"a">>, <<"b">>, <<"1">>, <<"a", "b">>, <<"b", "a">>, <<"zz">> }

(***************************************************************************)
(* File operations.  io holds the promise the operation returned (its      *)
(* state and the reason of a rejection), the stage of the stream, the read *)
(* or write error that has occurred, and the lines: for toCSV those still  *)
(* in the writer (todo) and those in the file (done), for fromCSV the      *)
(* records the parser has yet to emit (todo) and those pushed on rows      *)
(* (done).                                                                 *)
(***************************************************************************)
NoIO ==
  [op |-> "none", promise |-> "none", reason |-> "", stage |-> "idle",
   error |-> "", header |-> <<>>, todo |-> <<>>, done |-> <<>>]

\* The text csv-write-stream writes for one cell
CsvText(v) ==
  CASE v.t = "number" -> NumText(v.n)
    [] v.t = "string" -> v.s
    [] OTHER -> ""

\* What the writer emits for toCSV: the header with the first row, then the
\* rows, each as this.columns.map((col) => row[col])
toCSVLines(h, this) ==
  LET colv == Elems(h, this.columns)
      rows == Elems(h, this.data)
      cells == [r \in 1..Len(rows) |->
                  [c \in 1..Len(colv) |-> CsvText(RowGet(h, rows[r], colv[c].s))]]
  IN IF rows = <<>> THEN <<>>
     ELSE <<[c \in 1..Len(colv) |-> colv[c].s]>> \o cells

\* The CSV sources read by fromCSV: a header and up to two records
CsvRecords == { <<Str("1"), Str("a")>>, <<Str("2"), Str("a")>> }
CsvSources ==
  {[header |-> <<"a", "b">>, rows |-> rows] :
     rows \in UNION {[1..n -> CsvRecords] : n \in 0..2}}

\* new DataFrame(rows, Object.keys(rows[0])) in the end handler of fromCSV, for
\* rows that are not empty
fromCSVEnd(h, header, rows) ==
  LET objs == [i \in 1..Len(rows) |-> [kind |-> "obj", keys |-> header, vals |-> rows[i]]]
      h1 == Append(h \o objs, ArrObj(FreshRefs(h, Len(rows))))
      keys == ObjectKeys(objs[1])
      h2 == Append(h1, ArrObj([i \in 1..Len(keys) |-> Str(keys[i])]))
  IN Constructor(h2, Ref(Len(h1)), Ref(Len(h2)))

(***************************************************************************)
(* The state after construction.                                           *)
(***************************************************************************)
NoCall == [op |-> "new", this |-> 1, n |-> 0, ret |-> Undef, rows |-> <<>>, err |-> ""]

\* new DataFrame(rowsIn, columnsIn) on the heap that holds the two arguments
NewFromArrays(rowsIn, columnsIn) ==
  LET h0 == [i \in 1..Len(rowsIn) |-> ArrObj(rowsIn[i])]
      h1 == Append(h0, ArrObj(FreshRefs(<<>>, Len(rowsIn))))
      h2 == Append(h1, ArrObj([i \in 1..Len(columnsIn) |-> Str(columnsIn[i])]))
  IN Constructor(h2, Ref(Len(h1)), Ref(Len(h2)))

\* new DataFrame(records) on the heap that holds the records
NewFromRecords(rowsIn, keys) ==
  LET h0 == [i \in 1..Len(rowsIn) |->
               [kind |-> "obj", keys |-> keys, vals |-> rowsIn[i]]]
      h1 == Append(h0, ArrObj(FreshRefs(<<>>, Len(rowsIn))))
  IN Constructor(h1, Ref(Len(h1)), Undef)

Built(r) ==
  /\ r.err = ""
  /\ heap = Collect(r.h, <<r.this, NoTable>>).h
  /\ df = Collect(r.h, <<r.this, NoTable>>).df
  /\ call = NoCall
  /\ out = <<>>
  /\ io = NoIO

Init ==
  \E rowsIn \in Data2D :
    \E r \in {NewFromArrays(rowsIn, c) : c \in ColumnArgs}
             \cup {NewFromRecords(rowsIn, k) : k \in RecordKeys} :
      Built(r)

(***************************************************************************)
(* SpecNew: the constructor called on arguments of every shape.  An        *)
(* argument list is the heap that holds the arguments and the two values   *)
(* passed.                                                                 *)
(***************************************************************************)
ArgArrays(rowsIn, columnsIn) ==
  LET h0 == [i \in 1..Len(rowsIn) |-> ArrObj(rowsIn[i])]
      h1 == Append(h0, ArrObj(FreshRefs(<<>>, Len(rowsIn))))
      h2 == Append(h1, ArrObj([i \in 1..Len(columnsIn) |-> Str(columnsIn[i])]))
  IN [h |-> h2, data |-> Ref(Len(h1)), columns |-> Ref(Len(h2))]

ArgRecords(rowsIn, keys) ==
  LET h0 == [i \in 1..Len(rowsIn) |->
               [kind |-> "obj", keys |-> keys, vals |-> rowsIn[i]]]
      h1 == Append(h0, ArrObj(FreshRefs(<<>>, Len(rowsIn))))
  IN [h |-> h1, data |-> Ref(Len(h1)), columns |-> Undef]

\* A value that is not an array: nothing at all, a number, a string
ArgValue(v) == [h |-> <<>>, data |-> v, columns |-> Undef]

\* An array of numbers
ArgNumbers(vals) == [h |-> <<ArrObj(vals)>>, data |-> Ref(1), columns |-> Undef]

\* A plain object, empty or with a row array under the key 0
ArgObject(keys) ==
  [h |-> <<ArrObj(<<Num(1), Num(1)>>),
           [kind |-> "obj", keys |-> keys, vals |-> [i \in 1..Len(keys) |-> Ref(1)]]>>,
   data |-> Ref(2), columns |-> Undef]

NewArgs ==
  {ArgArrays(rowsIn, c) : rowsIn \in Data2D, c \in ColumnArgs}
  \cup {ArgRecords(rowsIn, k) : rowsIn \in Data2D, k \in RecordKeys}
  \cup {ArgValue(v) : v \in {Undef, Null, Num(1), Str("a")}}
  \cup {ArgNumbers(vals) : vals \in { <<Num(1), Num(2)>>, <<Num(0), Num(1)>> }}
  \cup {ArgObject(keys) : keys \in { <<>>, <<"0">> }}

\* Before any DataFrame is constructed
NotYet == [NoCall EXCEPT !.op = "start"]

InitNew ==
  /\ heap = <<>>
  /\ df = <<NoTable, NoTable>>
  /\ call = NotYet
  /\ out = <<>>
  /\ io = NoIO

(***************************************************************************)
(* The method calls.  t is the variable that holds the receiver, into the  *)
(* variable the caller assigns the returned DataFrame to.                  *)
(***************************************************************************)
Commit(h, d) ==
  \E c \in {Collect(h, d)} :
    /\ heap' = c.h
    /\ df' = c.df

RenameColumns(t, mapping) ==
  /\ Exists(df[t])
  /\ \E r \in {renameColumns(heap, df[t], mapping)} :
       Commit(r.h, [df EXCEPT ![t] = r.this])
  /\ call' = [NoCall EXCEPT !.op = "renameColumns", !.this = t]
  /\ out' = <<>>
  /\ UNCHANGED io

DropColumns(t, names) ==
  /\ Exists(df[t])
  /\ \E r \in {dropColumns(heap, df[t], names)} :
       Commit(r.h, [df EXCEPT ![t] = r.this])
  /\ call' = [NoCall EXCEPT !.op = "dropColumns", !.this = t]
  /\ out' = <<>>
  /\ UNCHANGED io

\* The end of a call that returns a new DataFrame, or throws
Returned(op, t, into, r) ==
  /\ Commit(r.h, IF r.err = "" THEN [df EXCEPT ![into] = r.this] ELSE df)
  /\ call' = [NoCall EXCEPT !.op = op, !.this = t, !.err = r.err]
  /\ out' = <<>>
  /\ UNCHANGED io

Select(t, names, into) ==
  /\ Exists(df[t])
  /\ \E r \in {select(heap, df[t], names)} : Returned("select", t, into, r)

Filter(t, keep, into) ==
  /\ Exists(df[t])
  /\ \E r \in {filter(heap, df[t], keep)} : Returned("filter", t, into, r)

SortBy(t, columns, ascending, into) ==
  /\ Exists(df[t])
  /\ \E sorted \in SortOutcomes(heap, columns, ascending, Elems(heap, df[t].data)) :
       \E r \in {sortBy(heap, df[t], sorted)} : Returned("sortBy", t, into, r)

GroupBy(t, columns, into) ==
  /\ Exists(df[t])
  /\ \E r \in {groupBy(heap, df[t], columns)} : Returned("groupBy", t, into, r)

GetRow(t, index) ==
  /\ Exists(df[t])
  /\ call' = [NoCall EXCEPT !.op = "getRow", !.this = t, !.n = index,
                            !.ret = getRow(heap, df[t], index).ret,
                            !.err = getRow(heap, df[t], index).err]
  /\ out' = <<>>
  /\ UNCHANGED <<heap, df, io>>

HeadCall(t, n) ==
  /\ Exists(df[t])
  /\ call' = [NoCall EXCEPT !.op = "head", !.this = t, !.n = n,
                            !.rows = head(heap, df[t], n).ret]
  /\ out' = head(heap, df[t], n).log
  /\ UNCHANGED <<heap, df, io>>

TailCall(t, n) ==
  /\ Exists(df[t])
  /\ call' = [NoCall EXCEPT !.op = "tail", !.this = t, !.n = n,
                            !.rows = tail(heap, df[t], n).ret]
  /\ out' = tail(heap, df[t], n).log
  /\ UNCHANGED <<heap, df, io>>

ModeCall(t, columnName) ==
  /\ Exists(df[t])
  /\ call' = [NoCall EXCEPT !.op = "mode", !.this = t,
                            !.rows = mode(heap, df[t], columnName)]
  /\ out' = <<>>
  /\ UNCHANGED <<heap, df, io>>

\* toCSV(file): the executor runs to its end, resolve() included, before the
\* streams have moved anything
ToCSV(t) ==
  /\ Exists(df[t])
  /\ io.op = "none"
  /\ io' = [NoIO EXCEPT !.op = "toCSV", !.promise = "resolved", !.stage = "writing",
                        !.todo = toCSVLines(heap, df[t])]
  /\ call' = [NoCall EXCEPT !.op = "toCSV", !.this = t]
  /\ out' = <<>>
  /\ UNCHANGED <<heap, df>>

\* The file stream writes the next line
WriteChunk ==
  /\ io.op = "toCSV" /\ io.stage = "writing" /\ io.todo # <<>>
  /\ io' = [io EXCEPT !.todo = Tail(@), !.done = Append(@, Head(io.todo))]
  /\ UNCHANGED <<heap, df, call, out>>

\* The file stream has written everything and finishes
WriteFinish ==
  /\ io.op = "toCSV" /\ io.stage = "writing" /\ io.todo = <<>>
  /\ io' = [io EXCEPT !.stage = "finished"]
  /\ UNCHANGED <<heap, df, call, out>>

\* The file stream fails (it cannot open the file, the disk is full); nothing
\* listens to its error event
WriteFails ==
  /\ io.op = "toCSV" /\ io.stage = "writing"
  /\ io' = [io EXCEPT !.stage = "failed", !.error = "EIO"]
  /\ UNCHANGED <<heap, df, call, out>>

\* DataFrame.fromCSV(file): the streams are set up and the promise returned
FromCSV(source) ==
  /\ io.op = "none"
  /\ io' = [NoIO EXCEPT !.op = "fromCSV", !.promise = "pending", !.stage = "reading",
                        !.header = source.header, !.todo = source.rows]
  /\ call' = [NoCall EXCEPT !.op = "fromCSV"]
  /\ out' = <<>>
  /\ UNCHANGED <<heap, df>>

\* .on("data", (row) => rows.push(row))
DataEvent ==
  /\ io.op = "fromCSV" /\ io.stage = "reading" /\ io.todo # <<>>
  /\ io' = [io EXCEPT !.todo = Tail(@), !.done = Append(@, Head(io.todo))]
  /\ UNCHANGED <<heap, df, call, out>>

\* .on("end", ...): with no rows Object.keys(rows[0]) throws inside the handler,
\* where no one catches it, and the promise is left as it is
EndEvent ==
  /\ io.op = "fromCSV" /\ io.stage = "reading" /\ io.todo = <<>>
  /\ IF io.done = <<>>
     THEN /\ io' = [io EXCEPT !.stage = "crashed"]
          /\ UNCHANGED <<heap, df>>
     ELSE \E r \in {fromCSVEnd(heap, io.header, io.done)} :
            /\ Commit(r.h, IF r.err = "" THEN [df EXCEPT ![2] = r.this] ELSE df)
            /\ io' = [io EXCEPT !.stage = IF r.err = "" THEN "ended" ELSE "crashed",
                                !.promise = IF r.err = "" THEN "resolved" ELSE @]
  /\ UNCHANGED <<call, out>>

\* The file cannot be read: the error event of the read stream, which pipe does
\* not pass on and to which nothing listens
ReadError ==
  /\ io.op = "fromCSV" /\ io.stage = "reading"
  /\ io' = [io EXCEPT !.stage = "crashed", !.error = "ENOENT"]
  /\ UNCHANGED <<heap, df, call, out>>

\* The parser fails: .on("error", reject)
ParseError ==
  /\ io.op = "fromCSV" /\ io.stage = "reading"
  /\ io' = [io EXCEPT !.stage = "failed", !.error = "EPARSE",
                      !.promise = "rejected", !.reason = "EPARSE"]
  /\ UNCHANGED <<heap, df, call, out>>

\* df = new DataFrame(data, columns)
New(arg) ==
  /\ call = NotYet
  /\ \E r \in {Constructor(arg.h, arg.data, arg.columns)} : Returned("new", 1, 1, r)

NextNew == \E arg \in NewArgs : New(arg)
SpecNew == InitNew /\ [][NextNew]_vars

(***************************************************************************)
(* SpecMode: mode asked of any column, with dropColumns between the calls. *)
(***************************************************************************)
ModeArgs == {"a", "b", "1", "column1", "column2", "zz"}

NextMode == \/ \E columnName \in ModeArgs : ModeCall(1, columnName)
            \/ \E names \in DropArgs : DropColumns(1, names)
SpecMode == Init /\ [][NextMode]_vars

(***************************************************************************)
(* SpecGroup: groupBy on a DataFrame whose second column also holds        *)
(* undefined and null.                                                     *)
(***************************************************************************)
GroupRows ==
  { <<Num(1), Undef>>, <<Num(1), Null>>, <<Num(2), Null>>,
    <<Num(1), Num(1)>>, <<Num(1), Str("1")>> }

GroupKeys == { <<"a">>, <<"b">>, <<"a", "b">>, <<"b", "a">> }

InitGroup ==
  \E rowsIn \in UNION {[1..n -> GroupRows] : n \in 0..MaxRows} :
    Built(NewFromArrays(rowsIn, <<"a", "b">>))

NextGroup == \E columns \in GroupKeys : ~Exists(df[2]) /\ GroupBy(1, columns, 2)
SpecGroup == InitGroup /\ [][NextGroup]_vars

(***************************************************************************)
(* SpecIO: one file operation, toCSV of a DataFrame or fromCSV of a        *)
(* source, and the stream events that follow it.                           *)
(***************************************************************************)
NextIO == \/ ToCSV(1)
          \/ WriteChunk
          \/ WriteFinish
          \/ WriteFails
          \/ \E source \in CsvSources : FromCSV(source)
          \/ DataEvent
          \/ EndEvent
          \/ ReadError
          \/ ParseError
SpecIO == Init /\ [][NextIO]_vars

(***************************************************************************)
(* Spec: one DataFrame, renamed, dropped from and replaced by a selection  *)
(* of itself (df = df.select(...)) any number of times.                    *)
(***************************************************************************)
Next ==
  \/ \E m \in RenameArgs(heap, df[1]) : RenameColumns(1, m)
  \/ \E names \in DropArgs : DropColumns(1, names)
  \/ \E names \in SelectArgs : Select(1, names, 1)

Spec == Init /\ [][Next]_vars

(***************************************************************************)
(* SpecDerive: a second DataFrame is derived from the first, once.         *)
(***************************************************************************)
NextDerive ==
  \/ \E names \in SelectArgs : ~Exists(df[2]) /\ Select(1, names, 2)
  \/ \E keep \in SUBSET (1..MaxRows) : ~Exists(df[2]) /\ Filter(1, keep, 2)
  \/ \E columns \in KeyArgs : \E ascending \in BOOLEAN :
       ~Exists(df[2]) /\ SortBy(1, columns, ascending, 2)
  \/ \E columns \in KeyArgs : ~Exists(df[2]) /\ GroupBy(1, columns, 2)

SpecDerive == Init /\ [][NextDerive]_vars

(***************************************************************************)
(* SpecShare: the first DataFrame is renamed and dropped from, a second is *)
(* derived from it once, and either is renamed or dropped from, any number *)
(* of times.                                                               *)
(***************************************************************************)
InitShare ==
  \E rowsIn \in Data2D : Built(NewFromArrays(rowsIn, <<"a", "b">>))

ShareRenames == { Mapping(<<"a">>, <<"c">>) }
ShareDrops == { <<"b">> }
ShareSelects == { <<"b", "a">>, <<"zz">> }
ShareKeys == { <<"a">>, <<"a", "b">> }

NextShare ==
  \/ \E names \in ShareSelects : ~Exists(df[2]) /\ Select(1, names, 2)
  \/ \E keep \in SUBSET (1..MaxRows) : ~Exists(df[2]) /\ Filter(1, keep, 2)
  \/ \E columns \in ShareKeys : ~Exists(df[2]) /\ SortBy(1, columns, FALSE, 2)
  \/ \E columns \in ShareKeys : ~Exists(df[2]) /\ GroupBy(1, columns, 2)
  \/ \E t \in 1..2 : \E m \in ShareRenames : RenameColumns(t, m)
  \/ \E t \in 1..2 : \E names \in ShareDrops : DropColumns(t, names)

SpecShare == InitShare /\ [][NextShare]_vars

(***************************************************************************)
(* SpecRead: the rows of a DataFrame are read.                             *)
(***************************************************************************)
NextRead ==
  \/ \E index \in (0 - 2)..(MaxRows + 2) : GetRow(1, index)
  \/ \E n \in 0..(MaxRows + 2) : HeadCall(1, n)
  \/ \E n \in 0..(MaxRows + 2) : TailCall(1, n)
  \/ \E names \in DropArgs : DropColumns(1, names)

SpecRead == Init /\ [][NextRead]_vars

(***************************************************************************)
(* What the properties below read off a state.                             *)
(***************************************************************************)
\* The column names of a DataFrame, in order
ColNames(h, t) == [i \in 1..Len(Elems(h, t.columns)) |-> Elems(h, t.columns)[i].s]

\* Its rows, as references, in order
RowsOf(h, t) == Elems(h, t.data)

SeqSet(q) == {q[i] : i \in 1..Len(q)}
NoRepeat(q) == \A i, j \in 1..Len(q) : q[i] = q[j] => i = j
KeySet(o) == SeqSet(o.keys)

\* The runtime type tags of the values of column c
TagsOf(h, t, c) == {TypeOf(RowGet(h, RowsOf(h, t)[i], c)) : i \in 1..Len(RowsOf(h, t))}

(***************************************************************************)
(* C1: in every state reached by renameColumns, dropColumns and select,    *)
(* the column names are pairwise distinct and every row has exactly the    *)
(* columns as its keys.                                                    *)
(***************************************************************************)
C1_ColumnsDistinctRowsMatch ==
  /\ NoRepeat(ColNames(heap, df[1]))
  /\ \A i \in 1..Len(RowsOf(heap, df[1])) :
       KeySet(heap[RowsOf(heap, df[1])[i].n]) = SeqSet(ColNames(heap, df[1]))

(***************************************************************************)
(* C2: dtypes has the columns as its keys, and for every column gives the  *)
(* one type tag all its values have, or mixed when they do not share one.  *)
(***************************************************************************)
C2_DtypesNeverStale ==
  LET names == SeqSet(ColNames(heap, df[1]))
  IN /\ KeySet(df[1].dtypes) = names
     /\ \A c \in names :
          LET dtype == GetKey(df[1].dtypes, c).s
              tags == TagsOf(heap, df[1], c)
          IN /\ dtype # "mixed" => tags = {dtype}
             /\ dtype = "mixed" => Cardinality(tags) # 1

\* A renamed DataFrame with a number column and a mixed column
C2_Witness ==
  /\ call.op = "renameColumns"
  /\ ColNames(heap, df[1]) = <<"c", "b">>
  /\ GetKey(df[1].dtypes, "c") = Str("number")
  /\ GetKey(df[1].dtypes, "b") = Str("mixed")
  /\ Len(RowsOf(heap, df[1])) = 2

(***************************************************************************)
(* C9: renameColumns(mapping) gives every column that is a key of mapping  *)
(* its mapped name, at the same place in columns and as the key of the     *)
(* same value in every row, and changes nothing else.  Stated for the      *)
(* mappings that leave the names pairwise distinct, the empty string among *)
(* the new names.                                                          *)
(***************************************************************************)
\* The names the columns are to have after renameColumns(mapping)
WantedNames(mapping) ==
  [i \in 1..Len(ColNames(heap, df[1])) |->
     IF HasKey(mapping, ColNames(heap, df[1])[i])
     THEN GetKey(mapping, ColNames(heap, df[1])[i]).s
     ELSE ColNames(heap, df[1])[i]]

RenamedAsMapped(mapping) ==
  LET old == ColNames(heap, df[1])
      new == ColNames(heap', df'[1])
      want(c) == IF HasKey(mapping, c) THEN GetKey(mapping, c).s ELSE c
  IN /\ Len(new) = Len(old)
     /\ \A i \in 1..Len(old) : new[i] = want(old[i])
     /\ Len(RowsOf(heap', df'[1])) = Len(RowsOf(heap, df[1]))
     /\ \A r \in 1..Len(RowsOf(heap, df[1])) :
          \A i \in 1..Len(old) :
            /\ HasKey(heap'[RowsOf(heap', df'[1])[r].n], want(old[i]))
            /\ RowGet(heap', RowsOf(heap', df'[1])[r], want(old[i]))
                 = RowGet(heap, RowsOf(heap, df[1])[r], old[i])

C9_RenameReplacesMappedNames ==
  [][\A m \in RenameArgs(heap, df[1]) :
       (/\ NoRepeat(ColNames(heap, df[1]))
        /\ NoRepeat(WantedNames(m))
        /\ RenameColumns(1, m))
       => RenamedAsMapped(m)]_vars

(***************************************************************************)
(* C5: getRow(index) returns the row at index when 0 <= index < rowCount   *)
(* and fails with Index out of range for every other index.                *)
(***************************************************************************)
C5_GetRowInRangeOrThrows ==
  call.op = "getRow" =>
    IF 0 <= call.n /\ call.n < Len(RowsOf(heap, df[1]))
    THEN call.err = "" /\ call.ret = RowsOf(heap, df[1])[call.n + 1]
    ELSE call.err = "Index out of range"

(***************************************************************************)
(* C10: head(n) returns the first min(n, rowCount) rows and tail(n) the    *)
(* last min(n, rowCount) rows, and logs those rows exactly once.           *)
(***************************************************************************)
C10_HeadTailClamped ==
  LET rows == RowsOf(heap, df[1])
      k == Min(call.n, Len(rows))
  IN /\ call.op = "head" => call.rows = SubSeq(rows, 1, k) /\ out = <<call.rows>>
     /\ call.op = "tail" =>
          call.rows = SubSeq(rows, Len(rows) - k + 1, Len(rows)) /\ out = <<call.rows>>

(***************************************************************************)
(* C3: select, filter, sortBy and groupBy return, without error, a         *)
(* DataFrame with a data array of its own and leave the receiver as it     *)
(* was: the same columns array, data array and row objects, with the same  *)
(* contents, and the same dtypes.                                          *)
(***************************************************************************)
DeriveOps == {"select", "filter", "sortBy", "groupBy"}

C3_DeriveLeavesReceiver ==
  [][call'.op \in DeriveOps =>
       /\ call'.err = ""
       /\ Exists(df'[2])
       /\ df'[2].data # df'[1].data
       /\ df'[1] = df[1]
       /\ \A a \in SeqSet(Walk(heap, RootsOf(df[1]), <<>>)) :
            a <= Len(heap') /\ heap'[a] = heap[a]]_vars

\* A sortBy that returned the three rows of the receiver in another order
C3_Witness ==
  /\ call.op = "sortBy"
  /\ Exists(df[2])
  /\ Len(RowsOf(heap, df[1])) = 3
  /\ RowsOf(heap, df[2]) # RowsOf(heap, df[1])
  /\ SeqSet(RowsOf(heap, df[2])) = SeqSet(RowsOf(heap, df[1]))

(***************************************************************************)
(* C4: renameColumns and dropColumns on one DataFrame leave the columns,   *)
(* the rows and the dtypes of the other one as they were, whichever of the *)
(* two was derived from the other.                                         *)
(***************************************************************************)
RECURSIVE Deep(_, _)
\* A value with every reference in it replaced by the object it refers to
Deep(h, v) ==
  IF v.t = "object"
  THEN [kind |-> h[v.n].kind, keys |-> h[v.n].keys,
        vals |-> [j \in 1..Len(h[v.n].vals) |-> Deep(h, h[v.n].vals[j])]]
  ELSE v

ContentOf(h, t) ==
  [columns |-> ColNames(h, t), rows |-> Deep(h, t.data).vals, dtypes |-> t.dtypes]

C4_NoSharedMutableState ==
  [][\A t \in 1..2 :
       (/\ call'.op \in {"renameColumns", "dropColumns"}
        /\ call'.this = t
        /\ Exists(df[3 - t]))
       => ContentOf(heap', df'[3 - t]) = ContentOf(heap, df[3 - t])]_vars

\* The second DataFrame, left without rows by filter and so built on the
\* columns array of the first, has been renamed
C4_Witness ==
  /\ call.op = "renameColumns"
  /\ call.this = 2
  /\ Exists(df[2])
  /\ Len(RowsOf(heap, df[2])) = 0
  /\ Len(RowsOf(heap, df[1])) = 2
  /\ ColNames(heap, df[2]) = <<"c", "b">>
  /\ ColNames(heap, df[1]) = <<"a", "b">>

(***************************************************************************)
(* C6: groupBy returns a DataFrame with one column and one row per         *)
(* distinct key combination, whose single value holds every row of that    *)
(* group and no other row.  Stated for the DataFrames that have rows.      *)
(***************************************************************************)
KeyOf(h, row, columns) == [i \in 1..Len(columns) |-> RowGet(h, row, columns[i])]

\* Whether value v is the row, or an array that holds it
Holds(h, v, row) == v = row \/ (IsArray(h, v) /\ row \in SeqSet(Elems(h, v)))

GroupedAsBuckets(columns) ==
  LET src == RowsOf(heap, df[1])
      res == RowsOf(heap', df'[2])
      cols == ColNames(heap', df'[2])
      keys == {KeyOf(heap, src[i], columns) : i \in 1..Len(src)}
  IN /\ Len(cols) = 1
     /\ Len(res) = Cardinality(keys)
     /\ \A i \in 1..Len(src) :
          \E g \in 1..Len(res) :
            /\ Holds(heap', RowGet(heap', res[g], cols[1]), src[i])
            /\ \A j \in 1..Len(src) :
                 Holds(heap', RowGet(heap', res[g], cols[1]), src[j])
                   => KeyOf(heap, src[j], columns) = KeyOf(heap, src[i], columns)

C6_GroupByOneRowPerGroup ==
  [][\A columns \in KeyArgs :
       (/\ ~Exists(df[2])
        /\ Len(RowsOf(heap, df[1])) > 0
        /\ GroupBy(1, columns, 2))
       => GroupedAsBuckets(columns)]_vars

(***************************************************************************)
(* C7: on key columns that hold only numbers or only strings, sortBy       *)
(* returns the rows of the receiver ordered by the keys in turn, ascending *)
(* or descending, rows equal on every key in their original order, with    *)
(* the columns of the receiver.                                            *)
(***************************************************************************)
Comparable(h, t, columns) ==
  \A i \in 1..Len(columns) :
    TagsOf(h, t, columns[i]) \subseteq {"number"} \/ TagsOf(h, t, columns[i]) \subseteq {"string"}

\* The natural order of two numbers or of two strings
KeyLess(v1, v2) ==
  IF v1.t = "number" THEN v1.n < v2.n ELSE StrRank(v1.s) < StrRank(v2.s)

\* row1 comes strictly before row2 in the order asked for
Before(h, columns, ascending, row1, row2) ==
  \E i \in 1..Len(columns) :
    /\ \A j \in 1..(i - 1) : RowGet(h, row1, columns[j]) = RowGet(h, row2, columns[j])
    /\ IF ascending
       THEN KeyLess(RowGet(h, row1, columns[i]), RowGet(h, row2, columns[i]))
       ELSE KeyLess(RowGet(h, row2, columns[i]), RowGet(h, row1, columns[i]))

PlaceIn(q, x) == CHOOSE i \in 1..Len(q) : q[i] = x

RowsSortedStably(columns, ascending) ==
  LET src == RowsOf(heap, df[1])
      res == RowsOf(heap', df'[2])
  IN /\ Len(res) = Len(src)
     /\ SeqSet(res) = SeqSet(src)
     /\ \A i, j \in 1..Len(res) :
          i < j =>
            /\ ~Before(heap, columns, ascending, res[j], res[i])
            /\ KeyOf(heap, res[i], columns) = KeyOf(heap, res[j], columns)
                 => PlaceIn(src, res[i]) < PlaceIn(src, res[j])

C7_SortByStableKeepsColumns ==
  [][\A columns \in KeyArgs : \A ascending \in BOOLEAN :
       (/\ ~Exists(df[2])
        /\ Comparable(heap, df[1], columns)
        /\ SortBy(1, columns, ascending, 2))
       => /\ RowsSortedStably(columns, ascending)
          /\ ColNames(heap', df'[2]) = ColNames(heap, df[1])]_vars

(***************************************************************************)
(* C8: select returns, without error, a DataFrame whose columns are the    *)
(* requested names that the receiver has, in the order requested, and      *)
(* whose rows are the receiver's rows cut down to those columns.  Stated   *)
(* for the requests that name no column twice.                             *)
(***************************************************************************)
SelectedAsRequested(names) ==
  LET kept == SelectSeq(names, LAMBDA c : c \in SeqSet(ColNames(heap, df[1])))
      src == RowsOf(heap, df[1])
      res == RowsOf(heap', df'[2])
  IN /\ call'.err = ""
     /\ ColNames(heap', df'[2]) = kept
     /\ Len(res) = Len(src)
     /\ \A r \in 1..Len(src) :
          /\ KeySet(heap'[res[r].n]) = SeqSet(kept)
          /\ \A c \in SeqSet(kept) : RowGet(heap', res[r], c) = RowGet(heap, src[r], c)

C8_SelectKeepsRequestedOrder ==
  [][\A names \in SelectArgs :
       (~Exists(df[2]) /\ NoRepeat(names) /\ Select(1, names, 2))
       => SelectedAsRequested(names)]_vars

(***************************************************************************)
(* C11: the constructor throws Invalid input data format, and constructs   *)
(* nothing, for every data argument that is neither an array of arrays nor *)
(* an array of records, and succeeds only for those two shapes.            *)
(***************************************************************************)
\* An array whose elements are all arrays, or all plain objects
Accepted(arg) ==
  /\ IsArray(arg.h, arg.data)
  /\ \/ \A i \in 1..Len(Elems(arg.h, arg.data)) : IsArray(arg.h, Elems(arg.h, arg.data)[i])
     \/ \A i \in 1..Len(Elems(arg.h, arg.data)) :
          /\ Elems(arg.h, arg.data)[i].t = "object"
          /\ ~IsArray(arg.h, Elems(arg.h, arg.data)[i])

C11_InvalidInputRejected ==
  [][\A arg \in NewArgs :
       New(arg) =>
         /\ ~Accepted(arg) =>
              call'.err = "Invalid input data format" /\ ~Exists(df'[1])
         /\ call'.err = "" => Accepted(arg)]_vars

(***************************************************************************)
(* C14: mode returns the distinct values that occur most often in the      *)
(* column, each once, in the order in which they first reached that count; *)
(* a number and a string are different values.                             *)
(***************************************************************************)
\* How often v occurs among the first i values of the column
CountUpTo(col, v, i) == Cardinality({j \in 1..i : col[j] = v})

\* The place at which v occurs for the m-th time
ReachedAt(col, v, m) == CHOOSE i \in 1..Len(col) : col[i] = v /\ CountUpTo(col, v, i) = m

IsModeOf(col, modes) ==
  LET top == CHOOSE m \in 0..Len(col) :
               /\ \A v \in SeqSet(col) : CountUpTo(col, v, Len(col)) <= m
               /\ m > 0 => \E v \in SeqSet(col) : CountUpTo(col, v, Len(col)) = m
      most == {v \in SeqSet(col) : CountUpTo(col, v, Len(col)) = top}
  IN /\ SeqSet(modes) = most
     /\ NoRepeat(modes)
     /\ \A i, j \in 1..Len(modes) :
          i < j => ReachedAt(col, modes[i], top) < ReachedAt(col, modes[j], top)

C14_ModeAllMostFrequent ==
  [][\A columnName \in ModeArgs :
       ModeCall(1, columnName)
         => IsModeOf(getColumn(heap, df[1].data, columnName), call'.rows)]_vars

(***************************************************************************)
(* C15: groupBy puts two rows in the same bucket exactly when their values *)
(* are equal at every key column (undefined and null differ, and so do 1   *)
(* and "1"); the buckets are in the order in which their keys first occur  *)
(* and the rows of a bucket are in source order.                           *)
(***************************************************************************)
BucketedByKey(h, src, buckets, columns) ==
  LET inBucket(b, row) == row \in SeqSet(buckets[b])
  IN /\ \A i \in 1..Len(src) : \E b \in 1..Len(buckets) : inBucket(b, src[i])
     /\ \A b \in 1..Len(buckets) : buckets[b] # <<>> /\ SeqSet(buckets[b]) \subseteq SeqSet(src)
     /\ \A i, j \in 1..Len(src) :
          (\E b \in 1..Len(buckets) : inBucket(b, src[i]) /\ inBucket(b, src[j]))
            <=> KeyOf(h, src[i], columns) = KeyOf(h, src[j], columns)
     /\ \A b, c \in 1..Len(buckets) :
          b < c => PlaceIn(src, buckets[b][1]) < PlaceIn(src, buckets[c][1])
     /\ \A b \in 1..Len(buckets) : \A k, l \in 1..Len(buckets[b]) :
          k < l => PlaceIn(src, buckets[b][k]) < PlaceIn(src, buckets[b][l])

C15_GroupByEqualKeysOnly ==
  [][\A columns \in GroupKeys :
       (~Exists(df[2]) /\ GroupBy(1, columns, 2))
         => BucketedByKey(heap, RowsOf(heap, df[1]),
                          groupData(heap, df[1], columns), columns)]_vars

(***************************************************************************)
(* C12: the promise of toCSV is resolved only once the header and every    *)
(* row are in the file, and a write that fails rejects it with the error;  *)
(* it is never resolved while the write is under way or has failed.        *)
(***************************************************************************)
C12_ToCSVResolvesAfterWrite ==
  io.op = "toCSV" =>
    /\ io.promise = "resolved" =>
         io.stage = "finished" /\ io.done = toCSVLines(heap, df[1])
    /\ io.stage = "failed" => io.promise = "rejected" /\ io.reason = io.error

(***************************************************************************)
(* C13: once fromCSV has come to the end of a source without records, or   *)
(* to a read or decode error, its promise is rejected, with that error     *)
(* when there is one; it is not resolved and not left pending.             *)
(***************************************************************************)
C13_FromCSVEmptyRejects ==
  (io.op = "fromCSV" /\ io.stage # "reading") =>
    /\ io.error # "" => io.promise = "rejected" /\ io.reason = io.error
    /\ (io.error = "" /\ io.done = <<>>) => io.promise = "rejected"

====
